---- MODULE Spec2Model ----
(***************************************************************************)
(* Model of the quiz application's Question Service                        *)
(* (src/src/server/server.ts): the `questions` table with its SERIAL id    *)
(* sequence, and the REST handlers that read and write it.                 *)
(*                                                                         *)
(* Values that cross the HTTP/JSON and SQL boundaries are modelled with    *)
(* their JavaScript type, so that validation (`!question`, `correctAnswer  *)
(* < 0`) and the database's input conversion (text -> integer) are         *)
(* computed as the code and PostgreSQL compute them.                       *)
(***************************************************************************)
EXTENDS Integers, Sequences, FiniteSets, TLC

VARIABLES
    questions,          \* the rows of table `questions`
    questions_id_seq,   \* next value of the SERIAL sequence behind questions.id
    assigned,           \* history: every id a row of the table ever carried
    inflight,           \* per connection: the DELETE handler between its two queries
    last,               \* the request served last and the response it was given
    server,             \* where the server process is: startServer's position
    reachable,          \* the stores that accept connections at the moment
    build,              \* the server source that runs: server.ts or part_000
    \* The state of the QuizGame component (src/src/App.tsx), by its useState names.
    quizQuestions,
    currentQuestion,
    selectedAnswer,
    score,
    showResult,
    quizCompleted,
    editMode,
    editingQuestion,
    loading,
    error,
    pending,            \* the component's async handlers awaiting a fetch
    started,            \* history: how many async handlers were called so far
    answers,            \* history: the submits since the quiz last started at question 0
    untouched,          \* history: the list was loaded once and nothing but play followed
    draftFrom           \* history: the handler that made the draft: "add", "edit", "none"

processVars == <<server, reachable, build>>

serverVars == <<questions, questions_id_seq, assigned, inflight, last, processVars>>

quizVars == <<currentQuestion, selectedAnswer, score, showResult, quizCompleted>>

clientVars ==
    <<quizQuestions, quizVars, editMode, editingQuestion, loading, error, pending,
      started, answers, untouched, draftFrom>>

vars == <<serverVars, clientVars>>

(***************************************************************************)
(* Bounds of the model.                                                    *)
(***************************************************************************)
\* Largest value the id sequence hands out (the sequence itself is unbounded).
MaxId == 4

\* The async handlers (fetchQuestions by the mount effect or a button,
\* handleSaveQuestion, handleDeleteQuestion) one session of the component
\* calls: of a session that plays, and of one that only edits.
MaxStarted == 3
MaxStartedEdit == 4

\* The HTTP connections that may have a request in flight at the same time.
Connections == {"c1", "c2"}

\* The stores the server sources connect to, and the sources themselves.
Stores == {"postgres", "mongo"}
Builds == {"server.ts", "part_000"}

\* The async handlers of the component that may await a fetch at the same time.
Slots == {"r1", "r2"}

(***************************************************************************)
(* JavaScript values: t is the typeof tag; s the text of a string; n and f *)
(* the integer part (floor) and first decimal digit of a number; a the     *)
(* elements of an array (strings).                                         *)
(***************************************************************************)
Undefined == [t |-> "undefined", s |-> "", n |-> 0, f |-> 0, a |-> <<>>]
Str(s) == [t |-> "string", s |-> s, n |-> 0, f |-> 0, a |-> <<>>]
Num(n) == [t |-> "number", s |-> "", n |-> n, f |-> 0, a |-> <<>>]
Frac(n, f) == [t |-> "number", s |-> "", n |-> n, f |-> f, a |-> <<>>]
Arr(a) == [t |-> "array", s |-> "", n |-> 0, f |-> 0, a |-> a]
Null == [t |-> "null", s |-> "", n |-> 0, f |-> 0, a |-> <<>>]

\* Decimal text of the integers 0..9, as Number.prototype.toString and
\* PostgreSQL's integer input/output functions read and write it.
DecimalText == <<"0", "1", "2", "3", "4", "5", "6", "7", "8", "9">>

IsDecimal(s) == \E i \in 1..Len(DecimalText) : DecimalText[i] = s

ParseDecimal(s) == (CHOOSE i \in 1..Len(DecimalText) : DecimalText[i] = s) - 1

\* JavaScript truthiness, as `!question` and `!options` use it.
Truthy(v) ==
    CASE v.t = "undefined" -> FALSE
      [] v.t = "null" -> FALSE
      [] v.t = "string" -> v.s # ""
      [] v.t = "number" -> ~(v.n = 0 /\ v.f = 0)
      [] v.t = "array" -> TRUE

\* Array.isArray
IsArray(v) == v.t = "array"

\* ToNumber, as the relational operators apply it to a non-number operand.
\* nan: the result is NaN; otherwise the number has floor n and first decimal f.
ToNumber(v) ==
    CASE v.t = "number" -> [nan |-> FALSE, n |-> v.n, f |-> v.f]
      [] v.t = "undefined" -> [nan |-> TRUE, n |-> 0, f |-> 0]
      [] v.t = "string" ->
            IF v.s = "" THEN [nan |-> FALSE, n |-> 0, f |-> 0]
            ELSE IF IsDecimal(v.s) THEN [nan |-> FALSE, n |-> ParseDecimal(v.s), f |-> 0]
            ELSE [nan |-> TRUE, n |-> 0, f |-> 0]
      [] v.t = "array" ->
            IF Len(v.a) = 0 THEN [nan |-> FALSE, n |-> 0, f |-> 0]
            ELSE IF Len(v.a) = 1 /\ IsDecimal(v.a[1])
                 THEN [nan |-> FALSE, n |-> ParseDecimal(v.a[1]), f |-> 0]
            ELSE [nan |-> TRUE, n |-> 0, f |-> 0]

\* v < k and v > k for an integer k: false whenever ToNumber(v) is NaN.
JsLess(v, k) == LET x == ToNumber(v) IN ~x.nan /\ x.n < k

JsGreater(v, k) == LET x == ToNumber(v) IN ~x.nan /\ (x.n > k \/ (x.n = k /\ x.f > 0))

(***************************************************************************)
(* Query parameters: node-postgres sends undefined as NULL and everything  *)
(* else as text; PostgreSQL converts the text with the input function of   *)
(* the parameter's column type.  err: the conversion fails (the query      *)
(* raises before it runs); null: the parameter is NULL.                    *)
(***************************************************************************)
\* A parameter of type INTEGER (questions.id, questions.correct_answer).
Int4In(v) ==
    CASE v.t = "undefined" -> [err |-> FALSE, null |-> TRUE, val |-> 0]
      [] v.t = "number" ->
            IF v.f = 0 THEN [err |-> FALSE, null |-> FALSE, val |-> v.n]
            ELSE [err |-> TRUE, null |-> FALSE, val |-> 0]
      [] v.t = "string" ->
            IF IsDecimal(v.s) THEN [err |-> FALSE, null |-> FALSE, val |-> ParseDecimal(v.s)]
            ELSE [err |-> TRUE, null |-> FALSE, val |-> 0]
      [] v.t = "array" -> [err |-> TRUE, null |-> FALSE, val |-> 0]

\* A parameter of type TEXT (questions.question, questions.explanation); the
\* payloads of this model carry a string or nothing there.
TextIn(v) ==
    CASE v.t = "undefined" -> [err |-> FALSE, null |-> TRUE, val |-> ""]
      [] v.t = "string" -> [err |-> FALSE, null |-> FALSE, val |-> v.s]

\* A parameter of type TEXT[] (questions.options).
TextArrayIn(v) ==
    CASE v.t = "undefined" -> [err |-> FALSE, null |-> TRUE, val |-> <<>>]
      [] v.t = "array" -> [err |-> FALSE, null |-> FALSE, val |-> v.a]
      [] OTHER -> [err |-> TRUE, null |-> FALSE, val |-> <<>>]

(***************************************************************************)
(* The table.  A row is [id, question, options, correct_answer,            *)
(* explanation]; created_at and updated_at are never read back.            *)
(***************************************************************************)
\* The ids of the table's rows.
Ids(table) == {r.id : r \in table}

\* SELECT COUNT(*) FROM questions
CountQuestions(table) == Cardinality(table)

\* The rows a WHERE id = $n clause selects.
WhereId(table, idParam) == {r \in table : r.id = idParam.val}

\* INSERT INTO questions (question, options, correct_answer, explanation)
\* VALUES ($1, $2, $3, $4): the parameters are converted first; then the id
\* default draws the sequence's next value, and only then are NOT NULL and the
\* primary key checked, so a failed insert still consumes a sequence value.
\* Result: ok, the table and sequence afterwards, and the row RETURNING gives.
InsertQuestion(table, nextval, q, o, ca, e) ==
    LET pq == TextIn(q)
        po == TextArrayIn(o)
        pca == Int4In(ca)
        pe == TextIn(e)
        row == [id |-> nextval, question |-> pq.val, options |-> po.val,
                correct_answer |-> pca.val, explanation |-> pe.val]
    IN  IF pq.err \/ po.err \/ pca.err \/ pe.err
        THEN [ok |-> FALSE, table |-> table, seq |-> nextval, row |-> row]
        ELSE IF pq.null \/ po.null \/ pca.null \/ pe.null
                \/ \E r \in table : r.id = nextval
        THEN [ok |-> FALSE, table |-> table, seq |-> nextval + 1, row |-> row]
        ELSE [ok |-> TRUE, table |-> table \cup {row}, seq |-> nextval + 1, row |-> row]

\* Mutant of UpdateQuestion: the WHERE clause lost, every row rewritten.
UpdateQuestion_NoWhere(table, q, o, ca, e, id) ==
    LET pq == TextIn(q)
        po == TextArrayIn(o)
        pca == Int4In(ca)
        pe == TextIn(e)
        pid == Int4In(id)
        new == {[id |-> r.id, question |-> pq.val, options |-> po.val,
                 correct_answer |-> pca.val, explanation |-> pe.val] : r \in table}
    IN  IF pq.err \/ po.err \/ pca.err \/ pe.err \/ pid.err
        THEN [ok |-> FALSE, table |-> table, rows |-> {}]
        ELSE IF table # {} /\ (pq.null \/ po.null \/ pca.null \/ pe.null)
        THEN [ok |-> FALSE, table |-> table, rows |-> {}]
        ELSE [ok |-> TRUE, table |-> new, rows |-> new]

\* UPDATE questions SET question = $1, options = $2, correct_answer = $3,
\* explanation = $4 WHERE id = $5 RETURNING ...: the parameters are converted
\* first; NOT NULL is checked only for a row that matches.
\* Result: ok, the table afterwards, and the rows RETURNING gives.
UpdateQuestion(table, q, o, ca, e, id) ==
    LET pq == TextIn(q)
        po == TextArrayIn(o)
        pca == Int4In(ca)
        pe == TextIn(e)
        pid == Int4In(id)
        hit == IF pid.null THEN {} ELSE WhereId(table, pid)
        new == {[id |-> r.id, question |-> pq.val, options |-> po.val,
                 correct_answer |-> pca.val, explanation |-> pe.val] : r \in hit}
    IN  IF pq.err \/ po.err \/ pca.err \/ pe.err \/ pid.err
        THEN [ok |-> FALSE, table |-> table, rows |-> {}]
        ELSE IF hit # {} /\ (pq.null \/ po.null \/ pca.null \/ pe.null)
        THEN [ok |-> FALSE, table |-> table, rows |-> {}]
        ELSE [ok |-> TRUE, table |-> (table \ hit) \cup new, rows |-> new]

\* Mutant of DeleteWhereId: the WHERE clause lost.
DeleteWhereId_NoWhere(table, id) ==
    LET pid == Int4In(id)
    IN  IF pid.err
        THEN [ok |-> FALSE, table |-> table, rows |-> {}]
        ELSE [ok |-> TRUE, table |-> {}, rows |-> table]

\* DELETE FROM questions WHERE id = $1 RETURNING *
DeleteWhereId(table, id) ==
    LET pid == Int4In(id)
        hit == IF pid.null THEN {} ELSE WhereId(table, pid)
    IN  IF pid.err
        THEN [ok |-> FALSE, table |-> table, rows |-> {}]
        ELSE [ok |-> TRUE, table |-> table \ hit, rows |-> hit]

\* SELECT ... FROM questions WHERE id = $1
SelectWhereId(table, id) ==
    LET pid == Int4In(id)
    IN  IF pid.err
        THEN [ok |-> FALSE, rows |-> {}]
        ELSE [ok |-> TRUE, rows |-> IF pid.null THEN {} ELSE WhereId(table, pid)]

\* ORDER BY id
RECURSIVE OrderById(_)
OrderById(rows) ==
    IF rows = {} THEN <<>>
    ELSE LET first == CHOOSE r \in rows : \A x \in rows : r.id <= x.id
         IN  <<first>> \o OrderById(rows \ {first})

\* Mutant of RowToJson: the column sent under its own name, so that the
\* response has no correctAnswer.
RowToJson_NoAlias(r) ==
    [id |-> Num(r.id), question |-> Str(r.question), options |-> Arr(r.options),
     correctAnswer |-> Undefined, explanation |-> Str(r.explanation)]

\* A result row as the JSON the handlers send: correct_answer as "correctAnswer".
RowToJson(r) ==
    [id |-> Num(r.id), question |-> Str(r.question), options |-> Arr(r.options),
     correctAnswer |-> Num(r.correct_answer), explanation |-> Str(r.explanation)]

\* No row in a response, and no body in a request.
NoRow ==
    [id |-> Undefined, question |-> Undefined, options |-> Undefined,
     correctAnswer |-> Undefined, explanation |-> Undefined]

(***************************************************************************)
(* initializeDatabase: CREATE TABLE IF NOT EXISTS, then the three sample   *)
(* questions when the table is empty.                                      *)
(***************************************************************************)
sampleQuestions ==
    << [question |-> "What is the capital of France?",
        options |-> <<"London", "Berlin", "Paris", "Madrid">>,
        correct_answer |-> 2,
        explanation |-> "Paris has been the capital of France since the 12th century."],
       [question |-> "Which planet is known as the Red Planet?",
        options |-> <<"Venus", "Mars", "Jupiter", "Saturn">>,
        correct_answer |-> 1,
        explanation |-> "Mars appears red due to iron oxide (rust) on its surface."],
       [question |-> "What is the largest mammal in the world?",
        options |-> <<"African Elephant", "Blue Whale", "Giraffe", "Polar Bear">>,
        correct_answer |-> 1,
        explanation |-> "The Blue Whale can grow up to 100 feet long and weigh 200 tons."] >>

\* The for loop over sampleQuestions, from its i-th element on.
RECURSIVE InsertSamples(_, _, _)
InsertSamples(table, nextval, i) ==
    IF i > Len(sampleQuestions) THEN [table |-> table, seq |-> nextval]
    ELSE LET q == sampleQuestions[i]
             ins == InsertQuestion(table, nextval, Str(q.question), Arr(q.options),
                                   Num(q.correct_answer), Str(q.explanation))
         IN  InsertSamples(ins.table, ins.seq, i + 1)

\* A variant that seeds whatever the table holds.
initializeDatabase_Always(table, nextval) == InsertSamples(table, nextval, 1)

initializeDatabase(table, nextval) ==
    IF CountQuestions(table) = 0
    THEN InsertSamples(table, nextval, 1)
    ELSE [table |-> table, seq |-> nextval]

(***************************************************************************)
(* The handlers.  Each returns the response (status, error text, the row   *)
(* or rows sent) and the table and sequence it leaves behind.              *)
(***************************************************************************)
Response(status, message, row, rows, table, seq) ==
    [status |-> status, error |-> message, row |-> row, rows |-> rows,
     table |-> table, seq |-> seq]

\* !question || !options || !Array.isArray(options) || options.length !== 4
BadOptions(body) ==
    \/ ~Truthy(body.question)
    \/ ~Truthy(body.options)
    \/ ~IsArray(body.options)
    \/ Len(body.options.a) # 4

\* Mutant of BadCorrectAnswer: the upper bound not checked.
BadCorrectAnswer_NoUpperBound(body) == JsLess(body.correctAnswer, 0)

\* correctAnswer < 0 || correctAnswer > 3
BadCorrectAnswer(body) ==
    JsLess(body.correctAnswer, 0) \/ JsGreater(body.correctAnswer, 3)

\* Mutant of InsertOf: the id computed as the client computes its draft id,
\* one more than the largest id in the table, instead of left to the sequence.
InsertOf_DraftId(table, nextval, body) ==
    LET draftId == (CHOOSE m \in Ids(table) \cup {0} :
                        \A x \in Ids(table) \cup {0} : x <= m) + 1
        ins == InsertQuestion(table, draftId, body.question, body.options,
                              body.correctAnswer, body.explanation)
    IN  [ins EXCEPT !.seq = IF ins.seq = draftId THEN nextval ELSE nextval + 1]

\* The parameters of the INSERT: the four destructured fields of the body.
InsertOf(table, nextval, body) ==
    InsertQuestion(table, nextval, body.question, body.options,
                   body.correctAnswer, body.explanation)

\* app.post('/api/questions')
PostQuestion(table, nextval, body) ==
    IF BadOptions(body)
    THEN Response(400, "Question must have 4 options", NoRow, <<>>, table, nextval)
    ELSE IF BadCorrectAnswer(body)
    THEN Response(400, "Correct answer must be between 0 and 3", NoRow, <<>>, table, nextval)
    ELSE LET ins == InsertOf(table, nextval, body)
         IN  IF ~ins.ok
             THEN Response(500, "Internal server error", NoRow, <<>>, ins.table, ins.seq)
             ELSE Response(201, "", RowToJson(ins.row), <<>>, ins.table, ins.seq)

\* The parameters of the UPDATE: the four destructured fields and req.params.id.
UpdateOf(table, id, body) ==
    UpdateQuestion(table, body.question, body.options, body.correctAnswer,
                   body.explanation, id)

\* app.put('/api/questions/:id')
PutQuestion(table, nextval, id, body) ==
    IF BadOptions(body)
    THEN Response(400, "Question must have 4 options", NoRow, <<>>, table, nextval)
    ELSE IF BadCorrectAnswer(body)
    THEN Response(400, "Correct answer must be between 0 and 3", NoRow, <<>>, table, nextval)
    ELSE LET upd == UpdateOf(table, id, body)
         IN  IF ~upd.ok
             THEN Response(500, "Internal server error", NoRow, <<>>, table, nextval)
             ELSE IF Cardinality(upd.rows) = 0
             THEN Response(404, "Question not found", NoRow, <<>>, upd.table, nextval)
             ELSE Response(200, "", RowToJson(CHOOSE r \in upd.rows : TRUE), <<>>,
                           upd.table, nextval)

\* app.get('/api/questions/:id')
GetQuestion(table, nextval, id) ==
    LET sel == SelectWhereId(table, id)
    IN  IF ~sel.ok
        THEN Response(500, "Internal server error", NoRow, <<>>, table, nextval)
        ELSE IF Cardinality(sel.rows) = 0
        THEN Response(404, "Question not found", NoRow, <<>>, table, nextval)
        ELSE Response(200, "", RowToJson(CHOOSE r \in sel.rows : TRUE), <<>>, table, nextval)

\* app.get('/api/questions')
GetQuestions(table, nextval) ==
    LET ordered == OrderById(table)
    IN  Response(200, "", NoRow, [i \in 1..Len(ordered) |-> RowToJson(ordered[i])],
                 table, nextval)

\* Mutant of IsLastQuestion: the guard off by one.
IsLastQuestion_OffByOne(questionCount) == questionCount <= 0

\* app.delete('/api/questions/:id'), first query: questionCount <= 1
IsLastQuestion(questionCount) == questionCount <= 1

\* Mutant of DeleteRow: the count checked again in the delete query itself
\* (DELETE ... WHERE id = $1 AND (SELECT COUNT(*) FROM questions) > 1).
DeleteRow_CountedAgain(table, nextval, id) ==
    LET del == DeleteWhereId(table, id)
    IN  IF ~del.ok
        THEN Response(500, "Internal server error", NoRow, <<>>, table, nextval)
        ELSE IF CountQuestions(table) <= 1
        THEN Response(400, "Cannot delete the last question", NoRow, <<>>, table, nextval)
        ELSE IF Cardinality(del.rows) = 0
        THEN Response(404, "Question not found", NoRow, <<>>, del.table, nextval)
        ELSE Response(200, "", NoRow, <<>>, del.table, nextval)

\* app.delete('/api/questions/:id'), second query and the response to it.
DeleteRow(table, nextval, id) ==
    LET del == DeleteWhereId(table, id)
    IN  IF ~del.ok
        THEN Response(500, "Internal server error", NoRow, <<>>, table, nextval)
        ELSE IF Cardinality(del.rows) = 0
        THEN Response(404, "Question not found", NoRow, <<>>, del.table, nextval)
        ELSE Response(200, "", NoRow, <<>>, del.table, nextval)

\* app.delete('/api/questions/:id') with nothing running between its queries.
DeleteQuestion(table, nextval, id) ==
    IF IsLastQuestion(CountQuestions(table))
    THEN Response(400, "Cannot delete the last question", NoRow, <<>>, table, nextval)
    ELSE DeleteRow(table, nextval, id)

(***************************************************************************)
(* Requests.  A body is the JSON object of a POST or PUT; an id is the     *)
(* text of the :id path segment.                                           *)
(***************************************************************************)
Payload(q, o, ca, e) ==
    [id |-> Undefined, question |-> q, options |-> o, correctAnswer |-> ca,
     explanation |-> e]

Valid1 == Payload(Str("Q1"), Arr(<<"a1", "a2", "a3", "a4">>), Num(0), Str("E1"))

\* Bodies that are complete questions: Valid1 as it is, and with an id field of
\* the client's choosing (the id of a seeded row).
ValidBodies == {Valid1, [Valid1 EXCEPT !.id = Num(1)]}

\* Bodies with one field of Valid1 missing, empty, mistyped or out of range.
OtherBodies ==
    {[Valid1 EXCEPT !.question = Str("")]}
    \cup {[Valid1 EXCEPT !.options = o] :
            o \in {Str("abcd"), Arr(<<"a1", "a2", "a3">>),
                   Arr(<<"a1", "a2", "a3", "a4", "a5">>)}}
    \cup {[Valid1 EXCEPT !.correctAnswer = ca] :
            ca \in {Undefined, Num(-1), Num(4), Frac(1, 5), Frac(3, 5), Str("0")}}
    \cup {[Valid1 EXCEPT !.explanation = Undefined]}

Bodies == ValidBodies \cup OtherBodies

\* The ids the sequence can have handed out, one it has not, and a non-number.
IdParams == {Str(DecimalText[i + 1]) : i \in 1..(MaxId + 1)} \cup {Str("abc")}

(***************************************************************************)
(* State.                                                                  *)
(***************************************************************************)
Idle == [pc |-> "idle", id |-> Undefined, questionCount |-> 0, status |-> 0]

Served(op, id, body, res) ==
    [op |-> op, id |-> id, body |-> body, status |-> res.status, error |-> res.error,
     row |-> res.row, rows |-> res.rows]

\* No async handler in a slot, and fetchQuestions awaiting GET /api/questions.
\* A handler keeps what its closure captured (currentQuestion, the list's
\* length) and, once the server has answered, the response on its way back.
NoRequest ==
    [op |-> "none", call |-> "", stage |-> "", method |-> "", id |-> Undefined,
     body |-> NoRow, status |-> 0, rows |-> <<>>, currentQuestion |-> 0, length |-> 0]

FetchRequest ==
    [NoRequest EXCEPT !.op = "fetch", !.call = "questions", !.stage = "sent",
                      !.method = "GET"]

\* What `last` holds when app.listen has been called and no request served.
Listening ==
    [op |-> "listen", id |-> Undefined, body |-> NoRow, status |-> 0,
     error |-> "", row |-> NoRow, rows |-> <<>>]

\* The routes each source registers besides the health check.
Routes(b) ==
    IF b = "part_000" THEN {"LIST"} ELSE {"POST", "PUT", "GET", "LIST", "DELETE"}

\* The state once startServer listens on a database that had no table yet, and
\* the component has mounted: its useState defaults, loading set and the
\* effect's fetchQuestions awaiting its response.
Init ==
    LET db == initializeDatabase({}, 1)
    IN  /\ questions = db.table
        /\ questions_id_seq = db.seq
        /\ assigned = Ids(db.table)
        /\ inflight = [c \in Connections |-> Idle]
        /\ last = Listening
        /\ server = "listening"
        /\ reachable = Stores
        /\ build = "server.ts"
        /\ quizQuestions = <<>>
        /\ currentQuestion = 0
        /\ selectedAnswer = Null
        /\ score = 0
        /\ showResult = FALSE
        /\ quizCompleted = FALSE
        /\ editMode = FALSE
        /\ editingQuestion = Null
        /\ loading = TRUE
        /\ error = Null
        /\ pending = [s \in Slots |-> IF s = "r1" THEN FetchRequest ELSE NoRequest]
        /\ started = 1
        /\ answers = <<>>
        /\ untouched = TRUE
        /\ draftFrom = "none"

\* What every handler does with its result: the table and sequence it leaves,
\* and the response.
Serve(op, id, body, res) ==
    /\ server = "listening" /\ op \in Routes(build) /\ "postgres" \in reachable
    /\ res.seq <= MaxId + 1
    /\ questions' = res.table
    /\ questions_id_seq' = res.seq
    /\ assigned' = assigned \cup Ids(res.table)
    /\ last' = Served(op, id, body, res)
    /\ UNCHANGED processVars

Post ==
    \E body \in Bodies :
        /\ Serve("POST", Undefined, body, PostQuestion(questions, questions_id_seq, body))
        /\ UNCHANGED <<inflight, clientVars>>

Put ==
    \E id \in IdParams, body \in Bodies :
        /\ Serve("PUT", id, body, PutQuestion(questions, questions_id_seq, id, body))
        /\ UNCHANGED <<inflight, clientVars>>

Get ==
    \E id \in IdParams :
        /\ Serve("GET", id, NoRow, GetQuestion(questions, questions_id_seq, id))
        /\ UNCHANGED <<inflight, clientVars>>

List ==
    /\ Serve("LIST", Undefined, NoRow, GetQuestions(questions, questions_id_seq))
    /\ UNCHANGED <<inflight, clientVars>>

\* A DELETE request served with no other request running meanwhile.
Delete ==
    \E id \in IdParams :
        /\ Serve("DELETE", id, NoRow, DeleteQuestion(questions, questions_id_seq, id))
        /\ UNCHANGED <<inflight, clientVars>>

\* Requests handled one at a time: each handler runs to completion.
Next == Post \/ Put \/ Get \/ List \/ Delete

Spec == Init /\ [][Next]_vars

(***************************************************************************)
(* DELETE requests running at the same time: the handler awaits its count  *)
(* query, and another connection's handler may run before it goes on to    *)
(* its delete query.                                                       *)
(***************************************************************************)
\* The handler of connection c up to and including the count check.
BeginDelete(c) ==
    \E id \in IdParams :
        /\ inflight[c].pc # "counted"
        /\ LET questionCount == CountQuestions(questions)
           IN  IF IsLastQuestion(questionCount)
               THEN /\ Serve("DELETE", id, NoRow,
                             Response(400, "Cannot delete the last question", NoRow, <<>>,
                                      questions, questions_id_seq))
                    /\ inflight' = [inflight EXCEPT ![c] =
                                      [pc |-> "responded", id |-> Undefined,
                                       questionCount |-> questionCount, status |-> 400]]
               ELSE /\ inflight' = [inflight EXCEPT ![c] =
                                      [pc |-> "counted", id |-> id,
                                       questionCount |-> questionCount, status |-> 0]]
                    /\ UNCHANGED <<questions, questions_id_seq, assigned, last>>
        /\ UNCHANGED <<processVars, clientVars>>

\* The handler of connection c from its delete query to its response.
FinishDelete(c) ==
    /\ inflight[c].pc = "counted"
    /\ LET res == DeleteRow(questions, questions_id_seq, inflight[c].id)
       IN  /\ Serve("DELETE", inflight[c].id, NoRow, res)
           /\ inflight' = [inflight EXCEPT ![c] =
                             [pc |-> "responded", id |-> Undefined,
                              questionCount |-> inflight[c].questionCount,
                              status |-> res.status]]
    /\ UNCHANGED <<processVars, clientVars>>

NextConcurrent == \E c \in Connections : BeginDelete(c) \/ FinishDelete(c)

SpecConcurrent == Init /\ [][NextConcurrent]_vars

(***************************************************************************)
(* Vocabulary of the properties.                                           *)
(***************************************************************************)
\* The path segment that names id n.
IdText(n) == Str(DecimalText[n + 1])

\* The row of the table that a path segment names, if any.
RowsNamed(table, id) == {r \in table : IdText(r.id) = id}

\* A question as the data model defines it: a non-empty prompt, exactly four
\* option strings, an integer index into them, and a text.
IsQuestionPayload(body) ==
    /\ body.question.t = "string" /\ body.question.s # ""
    /\ body.options.t = "array" /\ Len(body.options.a) = 4
    /\ body.correctAnswer.t = "number" /\ body.correctAnswer.f = 0
    /\ body.correctAnswer.n \in 0..3
    /\ body.explanation.t = "string"

(***************************************************************************)
(* C1.  Requests handled one at a time, starting from the seeded store:    *)
(* after any sequence of Create, Update and Delete the table holds at      *)
(* least one question.                                                     *)
(***************************************************************************)
C1_NeverEmpty == CountQuestions(questions) >= 1

\* A Delete was refused on the one remaining row.
C1_Witness ==
    /\ CountQuestions(questions) = 1
    /\ last.op = "DELETE" /\ last.status = 400
    /\ RowsNamed(questions, last.id) # {}

(***************************************************************************)
(* C2.  A Delete on a table of exactly one row is answered 400 and leaves  *)
(* the row; a Delete of an existing id on a table of two or more rows is   *)
(* answered 200, removes exactly that row, and leaves the others as they   *)
(* were.                                                                   *)
(***************************************************************************)
C2_DeleteContract ==
    [][last'.op = "DELETE" =>
        /\ CountQuestions(questions) = 1 =>
              last'.status = 400 /\ questions' = questions
        /\ CountQuestions(questions) >= 2 /\ RowsNamed(questions, last'.id) # {} =>
              /\ last'.status = 200
              /\ questions' = questions \ RowsNamed(questions, last'.id)
              /\ CountQuestions(questions') = CountQuestions(questions) - 1]_vars

\* Deletes went through down to one row, and the next one was refused.
C2_Witness ==
    /\ last.op = "DELETE" /\ last.status = 400
    /\ CountQuestions(questions) = 1
    /\ Cardinality(assigned \ Ids(questions)) >= 2

(***************************************************************************)
(* C3.  Two Delete requests running at the same time: a handler that read  *)
(* a count of two or more goes on to remove its row and answer 200         *)
(* whatever the table holds by then, so two of them, started on the last   *)
(* two rows, both succeed and leave the table empty (the witness).         *)
(***************************************************************************)
C3_DeleteAfterCount ==
    [][\A c \in Connections :
          (inflight[c].pc = "counted" /\ inflight'[c].pc = "responded"
           /\ RowsNamed(questions, inflight[c].id) # {}) =>
              /\ inflight'[c].status = 200
              /\ questions' = questions \ RowsNamed(questions, inflight[c].id)]_vars

\* Both handlers read a count of 2, both answered 200, and no row is left.
C3_Witness ==
    /\ questions = {}
    /\ \A c \in Connections :
          /\ inflight[c].pc = "responded"
          /\ inflight[c].questionCount = 2
          /\ inflight[c].status = 200

(***************************************************************************)
(* C4.  Create and Update answer 400, and leave the table as it was, for   *)
(* every payload whose options is not an array of exactly 4 entries or     *)
(* whose correctAnswer is missing or outside [0,3].                        *)
(***************************************************************************)
\* The payloads C4 is about.
OutsideContract(body) ==
    \/ ~(body.options.t = "array" /\ Len(body.options.a) = 4)
    \/ body.correctAnswer.t = "undefined"
    \/ /\ body.correctAnswer.t = "number"
       /\ \/ body.correctAnswer.n < 0
          \/ body.correctAnswer.n > 3
          \/ body.correctAnswer.n = 3 /\ body.correctAnswer.f > 0

C4_InvalidRejected ==
    [][(last'.op \in {"POST", "PUT"} /\ OutsideContract(last'.body)) =>
          last'.status = 400 /\ questions' = questions]_vars

(***************************************************************************)
(* C5.  Every stored question has exactly 4 options and a correct_answer   *)
(* that is an integer in [0,3], in every reachable state of the table.     *)
(***************************************************************************)
C5_RowsWellFormed ==
    \A r \in questions :
        /\ Len(r.options) = 4
        /\ r.correct_answer \in 0..3

\* The table holds a seeded row, a row that was created and a row that was
\* updated, the last request having brought a correctAnswer as text.
C5_Witness ==
    /\ \E r \in questions : r.id <= Len(sampleQuestions) /\ r.question = "Q1"
    /\ \E r \in questions : r.id <= Len(sampleQuestions) /\ r.question # "Q1"
    /\ \E r \in questions : r.id > Len(sampleQuestions)
    /\ last.status \in {200, 201} /\ last.body.correctAnswer.t = "string"

(***************************************************************************)
(* C6.  Create of a valid question is answered 201 with a row whose id the *)
(* store assigned, and Get-by-id on that id then returns the payload's     *)
(* question, options, correctAnswer and explanation.                       *)
(***************************************************************************)
C6_CreateThenGet ==
    [][(last'.op = "POST" /\ IsQuestionPayload(last'.body)) =>
          /\ last'.status = 201
          /\ last'.row.id.t = "number" /\ last'.row.id.f = 0
          /\ last'.row.id.n \notin Ids(questions)
          /\ LET got == GetQuestion(questions', questions_id_seq', IdText(last'.row.id.n))
             IN  /\ got.status = 200
                 /\ got.row.id = last'.row.id
                 /\ got.row.question = last'.body.question
                 /\ got.row.options = last'.body.options
                 /\ got.row.correctAnswer = last'.body.correctAnswer
                 /\ got.row.explanation = last'.body.explanation]_vars

\* A valid question was created.
C6_Witness ==
    /\ last.op = "POST" /\ IsQuestionPayload(last.body) /\ last.status = 201
    /\ RowsNamed(questions, IdText(last.row.id.n)) # {}

(***************************************************************************)
(* C7.  Update of an existing question with a valid payload replaces       *)
(* question, options, correctAnswer and explanation of that row, keeps its *)
(* id, leaves every other row and the row count as they were, and          *)
(* Get-by-id then returns the updated values.                              *)
(***************************************************************************)
C7_UpdateReplaces ==
    [][(/\ last'.op = "PUT"
        /\ IsQuestionPayload(last'.body)
        /\ RowsNamed(questions, last'.id) # {}) =>
          LET old == CHOOSE r \in RowsNamed(questions, last'.id) : TRUE
              new == [id |-> old.id,
                      question |-> last'.body.question.s,
                      options |-> last'.body.options.a,
                      correct_answer |-> last'.body.correctAnswer.n,
                      explanation |-> last'.body.explanation.s]
              got == GetQuestion(questions', questions_id_seq', last'.id)
          IN  /\ last'.status = 200
              /\ last'.row.id = Num(old.id)
              /\ questions' = (questions \ {old}) \cup {new}
              /\ CountQuestions(questions') = CountQuestions(questions)
              /\ got.status = 200
              /\ got.row.id = Num(old.id)
              /\ got.row.question = last'.body.question
              /\ got.row.options = last'.body.options
              /\ got.row.correctAnswer = last'.body.correctAnswer
              /\ got.row.explanation = last'.body.explanation]_vars

\* A seeded row was updated, next to rows that still hold their seed.
C7_Witness ==
    /\ last.op = "PUT" /\ IsQuestionPayload(last.body) /\ last.status = 200
    /\ \E r \in RowsNamed(questions, last.id) :
          r.id <= Len(sampleQuestions) /\ r.question = last.body.question.s
    /\ \E r \in questions : r.question = sampleQuestions[r.id].question

(***************************************************************************)
(* C8.  Delete of an id that is not in the table is answered 404 and       *)
(* leaves the table as it was, whatever the table holds (also when it      *)
(* holds exactly one row, with another id).                                *)
(***************************************************************************)
C8_DeleteUnknownIs404 ==
    [][(/\ last'.op = "DELETE"
        /\ \E n \in 1..(MaxId + 1) : last'.id = IdText(n)
        /\ RowsNamed(questions, last'.id) = {}) =>
          last'.status = 404 /\ questions' = questions]_vars

(***************************************************************************)
(* C9.  Update with a valid payload on an id that is not in the table is   *)
(* answered 404 and leaves the table as it was; Update with an invalid     *)
(* payload is answered 400 whether or not the id exists.                   *)
(***************************************************************************)
C9_UpdateErrors ==
    [][last'.op = "PUT" =>
        /\ (/\ IsQuestionPayload(last'.body)
            /\ \E n \in 1..(MaxId + 1) : last'.id = IdText(n)
            /\ RowsNamed(questions, last'.id) = {}) =>
              last'.status = 404 /\ questions' = questions
        /\ OutsideContract(last'.body) => last'.status = 400]_vars

(***************************************************************************)
(* C10.  The ids of the table are pairwise distinct; the id of a created   *)
(* row is the store's sequence value, not the payload's id, and was never  *)
(* carried by any row before (deleted rows included); no request changes   *)
(* the id of an existing row.                                              *)
(***************************************************************************)
DistinctIds(table) == \A r1, r2 \in table : r1.id = r2.id => r1 = r2

Screen_NoErrorScreen ==
    IF loading THEN "loading"
    ELSE IF editMode /\ editingQuestion # Null THEN "form"
    ELSE IF quizCompleted THEN "completed"
    ELSE IF currentQuestion >= Len(quizQuestions) THEN "crashed"
    ELSE "quiz"

Screen ==
    IF loading THEN "loading"
    ELSE IF Truthy(error) /\ Len(quizQuestions) = 0 THEN "error"
    ELSE IF editMode /\ editingQuestion # Null THEN "form"
    ELSE IF quizCompleted THEN "completed"
    ELSE IF currentQuestion >= Len(quizQuestions) THEN "crashed"
    ELSE "quiz"

\* quizQuestions[currentQuestion], the list being 1-based here.
question == quizQuestions[currentQuestion + 1]

\* quizQuestions.map(q => q.id)
QuestionIds(list) == {list[i].id.n : i \in 1..Len(list)}

\* Math.max over a set that is not empty.
MathMax(S) == CHOOSE m \in S : \A x \in S : x <= m

\* editingQuestion.id > Math.max(...ids), Math.max() of nothing being -Infinity.
AboveMax(draft, list) == \A m \in QuestionIds(list) : draft.id.n > m

\* Math.round((score / quizQuestions.length) * 100)
Percentage(points, length) == (200 * points + length) \div (2 * length)

\* response.ok
Ok(status) == status >= 200 /\ status <= 299

\* The option buttons a user presses in this model.
OptionIndexes == {1, 2}

FreeSlot == CHOOSE s \in Slots : pending[s] = NoRequest

\* The score a submit leaves: an always-incrementing variant, and
\* handleSubmit's comparison with the question's correctAnswer.
ScoreAfterSubmit_Always(points, selected, q) == points + 1

ScoreAfterSubmit(points, selected, q) ==
    IF selected = q.correctAnswer THEN points + 1 ELSE points

handleAnswerSelect ==
    /\ Screen = "quiz" /\ ~showResult
    /\ \E optionIndex \in OptionIndexes : selectedAnswer' = Num(optionIndex)
    /\ UNCHANGED <<serverVars, quizQuestions, currentQuestion, score, showResult,
                   quizCompleted, editMode, editingQuestion, draftFrom, loading, error,
                   pending, started, answers, untouched>>

handleSubmit ==
    /\ Screen = "quiz" /\ ~showResult /\ selectedAnswer # Null
    /\ score' = ScoreAfterSubmit(score, selectedAnswer, question)
    /\ showResult' = TRUE
    /\ answers' = Append(answers, [id |-> question.id.n, selected |-> selectedAnswer.n,
                                   correctAnswer |-> question.correctAnswer.n])
    /\ UNCHANGED <<serverVars, quizQuestions, currentQuestion, selectedAnswer,
                   quizCompleted, editMode, editingQuestion, draftFrom, loading, error,
                   pending, started, untouched>>

handleNext ==
    /\ Screen = "quiz" /\ showResult
    /\ IF currentQuestion < Len(quizQuestions) - 1
       THEN /\ currentQuestion' = currentQuestion + 1
            /\ selectedAnswer' = Null
            /\ showResult' = FALSE
            /\ UNCHANGED quizCompleted
       ELSE /\ quizCompleted' = TRUE
            /\ UNCHANGED <<currentQuestion, selectedAnswer, showResult>>
    /\ UNCHANGED <<serverVars, quizQuestions, score, editMode, editingQuestion,
                   draftFrom, loading, error, pending, started, answers, untouched>>

\* The values handleRestart sets, and a variant that keeps the score.
Restarted_KeepScore(points) ==
    [currentQuestion |-> 0, selectedAnswer |-> Null, score |-> points,
     showResult |-> FALSE, quizCompleted |-> FALSE]

Restarted(points) ==
    [currentQuestion |-> 0, selectedAnswer |-> Null, score |-> 0,
     showResult |-> FALSE, quizCompleted |-> FALSE]

handleRestart ==
    /\ Screen = "completed"
    /\ LET r == Restarted(score)
       IN  /\ currentQuestion' = r.currentQuestion
           /\ selectedAnswer' = r.selectedAnswer
           /\ score' = r.score
           /\ showResult' = r.showResult
           /\ quizCompleted' = r.quizCompleted
    /\ answers' = <<>>
    /\ UNCHANGED <<serverVars, quizQuestions, editMode, editingQuestion, draftFrom,
                   loading, error, pending, started, untouched>>

handleEditQuestion ==
    /\ Screen = "quiz"
    /\ editingQuestion' = question
    /\ editMode' = TRUE
    /\ untouched' = FALSE
    /\ draftFrom' = "edit"
    /\ UNCHANGED <<serverVars, quizQuestions, quizVars, loading, error, pending,
                   started, answers>>

\* The Edit Questions button of the completion screen: () => setEditMode(true).
EditQuestions ==
    /\ Screen = "completed"
    /\ editMode' = TRUE
    /\ untouched' = FALSE
    /\ UNCHANGED <<serverVars, quizQuestions, quizVars, editingQuestion, draftFrom,
                   loading, error, pending, started, answers>>

newQuestion(list) ==
    [id |-> Num(MathMax({0} \cup QuestionIds(list)) + 1),
     question |-> Str("New Question"),
     options |-> Arr(<<"Option 1", "Option 2", "Option 3", "Option 4">>),
     correctAnswer |-> Num(0),
     explanation |-> Str("Explanation for the new question")]

handleAddQuestion ==
    /\ Screen = "quiz"
    /\ editingQuestion' = newQuestion(quizQuestions)
    /\ editMode' = TRUE
    /\ untouched' = FALSE
    /\ draftFrom' = "add"
    /\ UNCHANGED <<serverVars, quizQuestions, quizVars, loading, error, pending,
                   started, answers>>

\* What a user leaves in the question field in this model: nothing.
QuestionTexts == {""}

handleQuestionChange ==
    /\ Screen = "form"
    /\ \E value \in QuestionTexts :
          editingQuestion' = [editingQuestion EXCEPT !.question = Str(value)]
    /\ UNCHANGED <<serverVars, quizQuestions, quizVars, editMode, loading, error, pending,
                   started, answers, untouched, draftFrom>>

\* handleCancelEdit; before it, a cancel that leaves the error message.
handleCancelEdit_KeepsError ==
    /\ Screen = "form"
    /\ editMode' = FALSE
    /\ editingQuestion' = Null
    /\ draftFrom' = "none"
    /\ UNCHANGED <<serverVars, quizQuestions, quizVars, loading, error, pending, started,
                   answers, untouched>>

handleCancelEdit ==
    /\ Screen = "form"
    /\ editMode' = FALSE
    /\ editingQuestion' = Null
    /\ draftFrom' = "none"
    /\ error' = Null
    /\ UNCHANGED <<serverVars, quizQuestions, quizVars, loading, pending, started,
                   answers, untouched>>

\* JSON.stringify of the four fields handleSaveQuestion sends, as express.json
\* parses it: strings, numbers and arrays of strings come back as they were,
\* and the draft's id is not part of the body.
JsonBody(draft) ==
    Payload(draft.question, draft.options, draft.correctAnswer, draft.explanation)

\* The fetch handleSaveQuestion awaits; a variant that always updates.
SaveRequest_AlwaysPut(draft, list) ==
    [NoRequest EXCEPT !.op = "save", !.call = "mutation", !.stage = "sent",
                      !.method = "PUT", !.id = IdText(draft.id.n),
                      !.body = JsonBody(draft)]

SaveRequest(draft, list) ==
    [NoRequest EXCEPT !.op = "save", !.call = "mutation", !.stage = "sent",
                      !.method = IF AboveMax(draft, list) THEN "POST" ELSE "PUT",
                      !.id = IF AboveMax(draft, list) THEN Undefined
                             ELSE IdText(draft.id.n),
                      !.body = JsonBody(draft)]

\* The fetch handleDeleteQuestion awaits, with the currentQuestion and
\* quizQuestions.length of the render whose handler was called.
DeleteRequest(questionId, index, list) ==
    [NoRequest EXCEPT !.op = "delete", !.call = "mutation", !.stage = "sent",
                      !.method = "DELETE", !.id = IdText(questionId),
                      !.currentQuestion = index, !.length = Len(list)]

handleSaveQuestion ==
    /\ Screen = "form"
    /\ \E s \in Slots : pending[s] = NoRequest
    /\ error' = Null
    /\ pending' = [pending EXCEPT ![FreeSlot] = SaveRequest(editingQuestion, quizQuestions)]
    /\ started' = started + 1
    /\ UNCHANGED <<serverVars, quizQuestions, quizVars, editMode, editingQuestion,
                   draftFrom, loading, answers, untouched>>

\* A delete handler without the check of the list's length.
handleDeleteQuestion_NoLengthCheck ==
    /\ Screen = "form" /\ ~AboveMax(editingQuestion, quizQuestions)
    /\ \E s \in Slots : pending[s] = NoRequest
    /\ started' = started + 1
    /\ error' = Null
    /\ pending' = [pending EXCEPT ![FreeSlot] =
                      DeleteRequest(editingQuestion.id.n, currentQuestion, quizQuestions)]
    /\ UNCHANGED <<serverVars, quizQuestions, quizVars, editMode, editingQuestion,
                   draftFrom, loading, answers, untouched>>

\* The Delete Question button is rendered for a draft whose id is not above
\* the list's maximum; with one question or none loaded the handler alerts
\* and returns.
handleDeleteQuestion ==
    /\ Screen = "form" /\ ~AboveMax(editingQuestion, quizQuestions)
    /\ IF Len(quizQuestions) <= 1
       THEN UNCHANGED <<error, pending, started>>
       ELSE /\ \E s \in Slots : pending[s] = NoRequest
            /\ started' = started + 1
            /\ error' = Null
            /\ pending' = [pending EXCEPT ![FreeSlot] =
                              DeleteRequest(editingQuestion.id.n, currentQuestion,
                                            quizQuestions)]
    /\ UNCHANGED <<serverVars, quizQuestions, quizVars, editMode, editingQuestion,
                   draftFrom, loading, answers, untouched>>

\* fetchQuestions up to its await, called by the Retry and Refresh buttons.
fetchQuestions ==
    /\ Screen \in {"quiz", "error"}
    /\ \E s \in Slots : pending[s] = NoRequest
    /\ loading' = TRUE
    /\ error' = Null
    /\ pending' = [pending EXCEPT ![FreeSlot] = FetchRequest]
    /\ started' = started + 1
    /\ untouched' = (untouched /\ Screen = "error")
    /\ UNCHANGED <<serverVars, quizQuestions, quizVars, editMode, editingQuestion,
                   draftFrom, answers>>

(***************************************************************************)
(* The requests of the component on their way.  The server handles a       *)
(* request that reached it; the awaited fetch then resolves with the       *)
(* response, or rejects when the request or its response was lost.         *)
(***************************************************************************)
Handle(s) ==
    LET r == pending[s]
        res == CASE r.method = "GET" -> GetQuestions(questions, questions_id_seq)
                 [] r.method = "POST" -> PostQuestion(questions, questions_id_seq, r.body)
                 [] r.method = "PUT" ->
                        PutQuestion(questions, questions_id_seq, r.id, r.body)
                 [] r.method = "DELETE" ->
                        DeleteQuestion(questions, questions_id_seq, r.id)
    IN  /\ r.stage = "sent"
        /\ server = "listening" /\ "postgres" \in reachable
        /\ res.seq <= MaxId + 1
        /\ questions' = res.table
        /\ questions_id_seq' = res.seq
        /\ pending' = [pending EXCEPT ![s] = [r EXCEPT !.stage = "answered",
                                                       !.status = res.status,
                                                       !.rows = res.rows]]
        /\ UNCHANGED <<assigned, inflight, last, processVars, quizQuestions, quizVars,
                       editMode, editingQuestion, draftFrom, loading, error, started,
                       answers, untouched>>

\* The message the catch block sets: the thrown Error's, or the TypeError's
\* of a fetch that rejected; before it, a catch block that sets none.
Message_None(rejected, thrown) == Null

Message(rejected, thrown) == Str(IF rejected THEN "Failed to fetch" ELSE thrown)

\* handleSaveQuestion and handleDeleteQuestion after their awaited fetch: the
\* catch block when it failed, else fetchQuestions up to its await.
AfterMutation(s, failed, rejected) ==
    LET r == pending[s]
    IN  /\ IF failed
           THEN /\ error' = Message(rejected, IF r.op = "save"
                                              THEN "Failed to save question"
                                              ELSE "Failed to delete question")
                /\ pending' = [pending EXCEPT ![s] = NoRequest]
                /\ UNCHANGED loading
           ELSE /\ error' = Null
                /\ loading' = TRUE
                /\ pending' = [pending EXCEPT ![s] =
                                  [r EXCEPT !.call = "questions", !.stage = "sent",
                                            !.method = "GET", !.id = Undefined,
                                            !.body = NoRow, !.status = 0]]
        /\ UNCHANGED <<quizQuestions, quizVars, editMode, editingQuestion, draftFrom>>

\* if (currentQuestion >= quizQuestions.length - 1), on the handler's closure.
AtLastQuestion(r) == r.currentQuestion >= r.length - 1

\* fetchQuestions after its await, and what the handler that awaited
\* fetchQuestions does next: fetchQuestions catches its own error.
AfterQuestions(s, failed, rejected, rows) ==
    LET r == pending[s]
    IN  /\ quizQuestions' = IF failed THEN quizQuestions ELSE rows
        /\ error' = IF failed THEN Message(rejected, "Failed to fetch questions")
                    ELSE error
        /\ loading' = FALSE
        /\ pending' = [pending EXCEPT ![s] = NoRequest]
        /\ IF r.op = "delete" /\ AtLastQuestion(r)
           THEN /\ currentQuestion' = 0
                /\ selectedAnswer' = Null
                /\ showResult' = FALSE
           ELSE UNCHANGED <<currentQuestion, selectedAnswer, showResult>>
        /\ IF r.op = "fetch"
           THEN UNCHANGED <<editMode, editingQuestion, draftFrom>>
           ELSE /\ editMode' = FALSE
                /\ editingQuestion' = Null
                /\ draftFrom' = "none"
        /\ UNCHANGED <<score, quizCompleted>>

Continue(s, failed, rejected, rows) ==
    /\ Screen # "crashed"
    /\ IF pending[s].call = "mutation"
       THEN AfterMutation(s, failed, rejected)
       ELSE AfterQuestions(s, failed, rejected, rows)
    /\ UNCHANGED <<serverVars, started, answers, untouched>>

Receive(s) ==
    /\ pending[s].stage = "answered"
    /\ Continue(s, ~Ok(pending[s].status), FALSE, pending[s].rows)

Reject(s) ==
    /\ pending[s].stage \in {"sent", "answered"}
    /\ Continue(s, TRUE, TRUE, <<>>)

\* A session of the component against the server, of at most MaxStarted
\* async handlers.
NextClient ==
    \/ handleAnswerSelect \/ handleSubmit \/ handleNext \/ handleRestart
    \/ handleEditQuestion \/ EditQuestions \/ handleAddQuestion
    \/ handleQuestionChange
    \/ handleCancelEdit
    \/ handleSaveQuestion /\ started' <= MaxStarted
    \/ handleDeleteQuestion /\ started' <= MaxStarted
    \/ fetchQuestions /\ started' <= MaxStarted
    \/ \E s \in Slots : Handle(s) \/ Receive(s) \/ Reject(s)

SpecClient == Init /\ [][NextClient]_vars

\* A session in which the user plays, retries and refreshes, and never gets
\* the edit form opened.
NextPlay ==
    \/ handleAnswerSelect \/ handleSubmit \/ handleNext \/ handleRestart
    \/ EditQuestions
    \/ fetchQuestions /\ started' <= MaxStarted
    \/ \E s \in Slots : Handle(s) \/ Receive(s) \/ Reject(s)

SpecPlay == Init /\ [][NextPlay]_vars

\* A session in which the user edits, adds and deletes questions, and answers
\* none, of at most MaxStartedEdit async handlers.
NextEdit ==
    \/ handleEditQuestion \/ handleAddQuestion
    \/ handleQuestionChange
    \/ handleCancelEdit
    \/ handleSaveQuestion /\ started' <= MaxStartedEdit
    \/ handleDeleteQuestion /\ started' <= MaxStartedEdit
    \/ fetchQuestions /\ started' <= MaxStartedEdit
    \/ \E s \in Slots : Handle(s) \/ Receive(s) \/ Reject(s)

SpecEdit == Init /\ [][NextEdit]_vars

(***************************************************************************)
(* C11.  When a play from the freshly loaded list, with nothing but        *)
(* select, submit and advance since, reaches the completion screen, one    *)
(* selection was submitted per question, the score shown is the number of  *)
(* positions whose selection is that question's correctAnswer, and the     *)
(* percentage shown is score/N*100 rounded to the nearest integer; on the  *)
(* three seeded questions all correct shows 3 and 100, and the first wrong *)
(* with the rest correct shows 2 and 67.                                   *)
(***************************************************************************)
\* The positions of the list whose submitted selection is the correctAnswer.
Hits == {i \in 1..Len(answers) : answers[i].selected = quizQuestions[i].correctAnswer.n}

\* p is x/n*100 rounded to the nearest integer, halves upwards.
IsRounded(p, x, n) == 2 * n * p - n <= 200 * x /\ 200 * x < 2 * n * p + n

C11_Scoring ==
    (untouched /\ Screen = "completed") =>
        LET N == Len(quizQuestions)
            shown == Percentage(score, N)
        IN  /\ N > 0 /\ Len(answers) = N
            /\ \A i \in 1..N : answers[i].id = quizQuestions[i].id.n
            /\ score = Cardinality(Hits)
            /\ IsRounded(shown, Cardinality(Hits), N)
            /\ N = Len(sampleQuestions) =>
                  /\ Hits = 1..N => (score = 3 /\ shown = 100)
                  /\ Hits = 2..N => (score = 2 /\ shown = 67)

\* The completion screen of a play that answered the first question wrongly
\* and the other two correctly.
C11_Witness ==
    /\ untouched /\ Screen = "completed"
    /\ Len(answers) = 3 /\ Hits = {2, 3}
    /\ answers[1].selected # quizQuestions[1].correctAnswer.n
    /\ score = 2 /\ Percentage(score, Len(quizQuestions)) = 67

(***************************************************************************)
(* C12.  Between two restarts no question is submitted twice: the submits  *)
(* since the quiz last started at question 0 by a restart (or the first    *)
(* load) are of pairwise different questions, whatever select, submit,     *)
(* advance, edit, add, save, cancel, delete and refresh came between.      *)
(***************************************************************************)
C12_OncePerQuestion ==
    \A i, j \in 1..Len(answers) : answers[i].id = answers[j].id => i = j

(***************************************************************************)
(* C13.  A step that clears the completed flag is a restart from the       *)
(* completion screen; whatever score, index and selection it found, it     *)
(* leaves score 0, index 0, no selection, nothing revealed and the loaded  *)
(* list as it was, and the quiz view shows question 0 for answering.       *)
(***************************************************************************)
C13_Restart ==
    [][(quizCompleted /\ ~quizCompleted') =>
          /\ Screen = "completed"
          /\ score' = 0 /\ currentQuestion' = 0
          /\ selectedAnswer' = Null /\ ~showResult'
          /\ quizQuestions' = quizQuestions
          /\ Screen' = "quiz"]_vars

\* The quiz view at question 0 after a restart: editMode is set with no draft
\* only by the completion screen's Edit Questions button, and only a restart
\* leads from that screen back to the quiz view.
C13_Witness ==
    /\ Screen = "quiz" /\ editMode /\ editingQuestion = Null
    /\ ~quizCompleted /\ score = 0 /\ currentQuestion = 0
    /\ selectedAnswer = Null /\ ~showResult /\ answers = <<>>
    /\ Len(quizQuestions) = 3

(***************************************************************************)
(* C14.  The control that leads to editing does so from each state that    *)
(* offers it: pressing Edit in the quiz view (answering or revealed) and   *)
(* pressing Edit Questions on the completion screen both end with the edit *)
(* form shown on a draft; and a step that discards the draft (cancel, or   *)
(* the end of a save or delete) leaves edit mode.                          *)
(***************************************************************************)
C14_EditingReachable ==
    [][/\ (handleEditQuestion \/ EditQuestions) =>
             (Screen' = "form" /\ editingQuestion' # Null)
       /\ (editingQuestion # Null /\ editingQuestion' = Null) => ~editMode']_vars

(***************************************************************************)
(* C15.  When the request of a save or delete fails (the fetch rejects or  *)
(* the response is not a success), the step that ends the handler leaves   *)
(* edit mode and the draft as they are, so a form that was shown stays     *)
(* shown on the same draft, sets an error message, and leaves the loaded   *)
(* list, the current index and the score unchanged.                        *)
(***************************************************************************)
\* The handler in slot s ends at its awaited save or delete request.
MutationFails(s) == pending[s].call = "mutation" /\ pending'[s] = NoRequest

C15_FailureKeepsDraft ==
    [][\A s \in Slots : MutationFails(s) =>
          /\ editMode' = editMode /\ editingQuestion' = editingQuestion
          /\ Screen = "form" => Screen' = "form"
          /\ Truthy(error')
          /\ quizQuestions' = quizQuestions
          /\ currentQuestion' = currentQuestion /\ score' = score]_vars

\* The form still open on a draft with an emptied question text, after the
\* server refused to save it.
C15_Witness ==
    /\ Screen = "form" /\ editingQuestion.question = Str("")
    /\ error = Str("Failed to save question")
    /\ \A s \in Slots : pending[s] = NoRequest

(***************************************************************************)
(* C16.  When loading ends with no question loaded, the error screen is    *)
(* shown; on the error screen the only thing that changes the component's  *)
(* state is Retry, which calls fetchQuestions again (loading, error        *)
(* cleared, a GET sent) and leaves the quiz state alone; and when the      *)
(* first non-empty list arrives the quiz view shows question 0 with score  *)
(* 0, no selection and nothing revealed.                                   *)
(***************************************************************************)
C16_LoadFailure ==
    [][/\ (loading /\ ~loading' /\ Len(quizQuestions') = 0) =>
             (Screen' = "error" /\ Truthy(error'))
       /\ Screen = "error" =>
             \/ UNCHANGED clientVars
             \/ /\ Screen' = "loading" /\ error' = Null
                /\ \E s \in Slots : pending[s] = NoRequest /\ pending'[s] = FetchRequest
                /\ UNCHANGED <<quizQuestions, quizVars, editMode, editingQuestion,
                               draftFrom>>
       /\ (Len(quizQuestions) = 0 /\ Len(quizQuestions') > 0) =>
             /\ Screen' = "quiz"
             /\ currentQuestion' = 0 /\ score' = 0
             /\ selectedAnswer' = Null /\ ~showResult']_vars

\* The quiz view at question 0, loaded by the fetch a Retry started after the
\* mount's fetch had failed.
C16_Witness ==
    /\ Screen = "quiz" /\ Len(quizQuestions) = 3
    /\ untouched /\ started = 2
    /\ currentQuestion = 0 /\ score = 0 /\ selectedAnswer = Null

(***************************************************************************)
(* The server process from its launch: startServer tests its connections,  *)
(* initializes the table and listens, or exits.  The stores come and go    *)
(* as they please, and the process may be launched again after it exited.  *)
(***************************************************************************)
\* The connections startServer tests: testConnection in server.ts,
\* testPgConnection and testMongoConnection in part_000.
Required(b) == IF b = "part_000" THEN Stores ELSE {"postgres"}

\* The table after the first k passes of the for loop over sampleQuestions.
RECURSIVE InsertedFirst(_, _, _)
InsertedFirst(table, nextval, k) ==
    IF k = 0 THEN [table |-> table, seq |-> nextval]
    ELSE LET before == InsertedFirst(table, nextval, k - 1)
             q == sampleQuestions[k]
             ins == InsertQuestion(before.table, before.seq, Str(q.question),
                                   Arr(q.options), Num(q.correct_answer),
                                   Str(q.explanation))
         IN  [table |-> ins.table, seq |-> ins.seq]

\* The database of a first launch: no table yet.
InitStart ==
    /\ questions = {}
    /\ questions_id_seq = 1
    /\ assigned = {}
    /\ inflight = [c \in Connections |-> Idle]
    /\ last = [Listening EXCEPT !.op = "none"]
    /\ server = "starting"
    /\ reachable \in SUBSET Stores
    /\ build \in Builds
    /\ quizQuestions = <<>>
    /\ currentQuestion = 0
    /\ selectedAnswer = Null
    /\ score = 0
    /\ showResult = FALSE
    /\ quizCompleted = FALSE
    /\ editMode = FALSE
    /\ editingQuestion = Null
    /\ loading = TRUE
    /\ error = Null
    /\ pending = [s \in Slots |-> NoRequest]
    /\ started = 0
    /\ answers = <<>>
    /\ untouched = TRUE
    /\ draftFrom = "none"

\* startServer up to `if (!dbConnected) process.exit(1)`.
TestConnection ==
    /\ server = "starting"
    /\ server' = IF Required(build) \subseteq reachable THEN "initializing" ELSE "exited"
    /\ UNCHANGED <<questions, questions_id_seq, assigned, inflight, last, reachable,
                   build, clientVars>>

\* await initializeDatabase() returns and app.listen is called.
InitializeDatabase ==
    /\ server = "initializing" /\ "postgres" \in reachable
    /\ LET db == initializeDatabase(questions, questions_id_seq)
       IN  /\ db.seq <= MaxId + 1
           /\ questions' = db.table
           /\ questions_id_seq' = db.seq
           /\ assigned' = assigned \cup Ids(db.table)
    /\ server' = "listening"
    /\ last' = Listening
    /\ UNCHANGED <<inflight, reachable, build, clientVars>>

\* A query of initializeDatabase throws because the store went away, after k
\* samples were inserted: startServer's catch exits the process.
InitializeFails ==
    /\ server = "initializing"
    /\ \E k \in 0..(Len(sampleQuestions) - 1) :
          /\ k > 0 => ("postgres" \in reachable /\ CountQuestions(questions) = 0)
          /\ LET db == InsertedFirst(questions, questions_id_seq, k)
             IN  /\ questions' = db.table
                 /\ questions_id_seq' = db.seq
                 /\ assigned' = assigned \cup Ids(db.table)
    /\ reachable' = reachable \ {"postgres"}
    /\ server' = "exited"
    /\ UNCHANGED <<inflight, last, build, clientVars>>

\* process.on('SIGINT'): the pool is closed and the process exits.
Sigint ==
    /\ server = "listening"
    /\ server' = "exited"
    /\ UNCHANGED <<questions, questions_id_seq, assigned, inflight, last, reachable,
                   build, clientVars>>

\* The source is run again: its last statement calls startServer().
Launch ==
    /\ server = "exited"
    /\ server' = "starting"
    /\ UNCHANGED <<questions, questions_id_seq, assigned, inflight, last, reachable,
                   build, clientVars>>

Disconnect ==
    \E store \in reachable :
        /\ reachable' = reachable \ {store}
        /\ UNCHANGED <<questions, questions_id_seq, assigned, inflight, last, server,
                       build, clientVars>>

Reconnect ==
    \E store \in Stores \ reachable :
        /\ reachable' = reachable \cup {store}
        /\ UNCHANGED <<questions, questions_id_seq, assigned, inflight, last, server,
                       build, clientVars>>

\* The message of the Error pool.query rejects with when postgres refuses
\* the connection to the configured host and port.
DriverMessage == "connect ECONNREFUSED 127.0.0.1:5432"

\* A response that leaves the table alone.
Answer(op, id, status, message) ==
    [op |-> op, id |-> id, body |-> NoRow, status |-> status, error |-> message,
     row |-> NoRow, rows |-> <<>>]

\* GET /api/health.  server.ts queries the pool and reports what it caught;
\* part_000 runs its two connection tests, which catch their own errors.
Health ==
    /\ server = "listening"
    /\ last' = IF build = "part_000"
               THEN IF Stores \subseteq reachable
                    THEN Answer("HEALTH", Undefined, 200, "")
                    ELSE Answer("HEALTH", Undefined, 500, "Could not connect to databases")
               ELSE IF "postgres" \in reachable
                    THEN Answer("HEALTH", Undefined, 200, "")
                    ELSE Answer("HEALTH", Undefined, 500, DriverMessage)
    /\ UNCHANGED <<questions, questions_id_seq, assigned, inflight, processVars,
                   clientVars>>

\* A route whose first statement is its query, while postgres is away: the
\* query rejects and the catch block answers.
Unavailable ==
    /\ server = "listening" /\ "postgres" \notin reachable
    /\ \E op \in Routes(build) \ {"POST", "PUT"} :
          \E id \in IF op = "LIST" THEN {Undefined} ELSE IdParams :
              last' = Answer(op, id, 500, "Internal server error")
    /\ UNCHANGED <<questions, questions_id_seq, assigned, inflight, processVars,
                   clientVars>>

\* server.ts's last middleware, for a path no route matches.
NotFound ==
    /\ server = "listening" /\ build = "server.ts"
    /\ last' = Answer("OTHER", Undefined, 404, "Endpoint not found")
    /\ UNCHANGED <<questions, questions_id_seq, assigned, inflight, processVars,
                   clientVars>>

NextStart ==
    \/ Launch \/ TestConnection \/ InitializeDatabase \/ InitializeFails \/ Sigint
    \/ Disconnect \/ Reconnect
    \/ Health \/ Unavailable \/ NotFound
    \/ Post \/ List \/ Delete

SpecStart == InitStart /\ [][NextStart]_vars

(***************************************************************************)
(* C17.  The process starts to listen only from the end of a finished      *)
(* initialization, which it enters only when every connection it tests was *)
(* accepted; when one is refused it exits, and no request is answered      *)
(* unless the process listens.  An initialization that finishes adds       *)
(* exactly the three sample questions when the table held no row; no       *)
(* initialization, finished or not, changes a table that held a row.       *)
(***************************************************************************)
\* The rows of the three samples, numbered from the sequence value `first`.
SampleRows(first) ==
    {[id |-> first + i - 1,
      question |-> sampleQuestions[i].question,
      options |-> sampleQuestions[i].options,
      correct_answer |-> sampleQuestions[i].correct_answer,
      explanation |-> sampleQuestions[i].explanation] : i \in 1..3}

GenericMessages ==
    {"Question must have 4 options", "Correct answer must be between 0 and 3",
     "Question not found", "Cannot delete the last question",
     "Internal server error", "Endpoint not found",
     "Could not connect to databases", "Unknown error"}

C18_GenericErrors == last.status >= 400 => last.error \in GenericMessages

(***************************************************************************)
(* C19.  At no time does the component await the response of more than one *)
(* POST, PUT or DELETE request.                                            *)
(***************************************************************************)
C19_OneMutation == Cardinality({s \in Slots : pending[s].call = "mutation"}) <= 1

(***************************************************************************)
(* C20.  Whenever the render reaches the quiz view (not loading, no error  *)
(* screen, no edit form, not completed), currentQuestion is an index of    *)
(* the loaded list: 0 <= currentQuestion < quizQuestions.length.           *)
(***************************************************************************)
C20_IndexInRange ==
    Screen \in {"quiz", "crashed"} =>
        (0 <= currentQuestion /\ currentQuestion < Len(quizQuestions))

(***************************************************************************)
(* C21.  Whenever the edit form is shown Cancel can be pressed; and a step  *)
(* that discards the draft while no async handler ends is a cancel: it      *)
(* sends no request, leaves the table, the loaded list, the current index,  *)
(* the selection, the revealed flag and the score as they were, clears the  *)
(* error message and leaves edit mode, whatever the draft holds and         *)
(* whether or not an error message of a failed save or delete was set.      *)
(***************************************************************************)
Discards ==
    /\ Screen = "form" /\ editingQuestion' = Null
    /\ \A s \in Slots : pending[s] # NoRequest => pending'[s] # NoRequest

C21_Cancel ==
    /\ [](Screen = "form" => ENABLED handleCancelEdit)
    /\ [][Discards => /\ pending' = pending /\ started' = started
                       /\ UNCHANGED <<questions, questions_id_seq>>
                       /\ UNCHANGED <<quizQuestions, quizVars>>
                       /\ error' = Null
                       /\ ~editMode']_vars

\* A response to a Create was lost, the form stayed with the message, and
\* the form is gone with no message and the list not fetched again.
C21_Witness ==
    /\ started = 2 /\ \A s \in Slots : pending[s] = NoRequest
    /\ Cardinality(questions) = 4 /\ Len(quizQuestions) = 3
    /\ error = Null /\ editingQuestion = Null /\ ~editMode

(***************************************************************************)
(* C22.  In every reachable client state a Save of a draft made by Add      *)
(* sends a Create (POST, so that no existing row is written over, however   *)
(* stale the loaded list is), and a Save of a draft copied from a loaded    *)
(* question sends an Update (PUT) on that question's id.                    *)
(***************************************************************************)
Saves(s) == pending[s] = NoRequest /\ pending'[s].op = "save"

C22_CreateOrUpdate ==
    [][\A s \in Slots :
          Saves(s) =>
             /\ draftFrom = "add" => pending'[s].method = "POST"
             /\ draftFrom = "edit" =>
                    /\ pending'[s].method = "PUT"
                    /\ pending'[s].id = IdText(editingQuestion.id.n)]_vars

(***************************************************************************)
(* C23.  Delete can be pressed only on the form of a draft whose id is at   *)
(* most the largest id of the loaded list; a step that sends a DELETE       *)
(* starts from a list of two or more questions; and with one question or    *)
(* fewer loaded, pressing Delete changes nothing: no request, and the       *)
(* draft, edit mode, list, index and score stay as they are.                *)
(***************************************************************************)
Deletes(s) == pending[s] = NoRequest /\ pending'[s].op = "delete"

C23_DeleteGuard ==
    /\ [](ENABLED handleDeleteQuestion =>
             /\ Screen = "form"
             /\ \E m \in QuestionIds(quizQuestions) : editingQuestion.id.n <= m)
    /\ [](Len(quizQuestions) <= 1 => ~ENABLED (handleDeleteQuestion /\ vars' # vars))
    /\ [][\A s \in Slots : Deletes(s) => Len(quizQuestions) >= 2]_vars

\* The form is shown on the only question left in the loaded list.
C23_Witness ==
    /\ Screen = "form" /\ Len(quizQuestions) = 1
    /\ editingQuestion.id = quizQuestions[1].id
    /\ ENABLED handleDeleteQuestion

(***************************************************************************)
(* C24.  In every reachable client state the score is between 0 and the    *)
(* number of loaded questions, and the percentage of the completion screen  *)
(* is between 0 and 100.                                                    *)
(***************************************************************************)
C24_ScoreInRange ==
    /\ 0 <= score /\ score <= Len(quizQuestions)
    /\ Screen = "completed" /\ Len(quizQuestions) > 0 =>
           Percentage(score, Len(quizQuestions)) \in 0..100

(***************************************************************************)
(* C25.  Whenever the quiz view shows a question as revealed, that         *)
(* question is the one submitted last and the selection held is the one    *)
(* submitted for it; so after a delete or a re-fetch the question at the   *)
(* current index is one that was submitted, or is shown for answering.     *)
(***************************************************************************)
C25_RevealedIsSubmitted ==
    Screen = "quiz" /\ showResult =>
        /\ answers # <<>>
        /\ answers[Len(answers)].id = question.id.n
        /\ selectedAnswer = Num(answers[Len(answers)].selected)

====
